---- MODULE Spec2Model ----
(***************************************************************************)
(* Session / workflow orchestration of the Telegram video speed bot        *)
(* (src/web_bot.py): the process-wide user_sessions map, video_handler,    *)
(* callback_handler, and the two GitHubActionsClient calls they make; and   *)
(* the filter construction of the processing job (src/process_video.py).   *)
(*                                                                         *)
(* Every handler is an asyncio coroutine: the code between two awaits runs *)
(* atomically, and at each await any other handler may run.  One action    *)
(* of the model is the code of a handler from one await to the next.       *)
(*                                                                         *)
(* Text (callback payloads, platform error descriptions) is a sequence of  *)
(* one-character strings, so that prefix tests, splitting, parsing and     *)
(* substring search are computed and not assumed.                          *)
(***************************************************************************)
EXTENDS Integers, Sequences, FiniteSets, TLC

VARIABLES
    user_sessions,      \* web_bot.py:66   dict user_id -> session_data
    github_client,      \* web_bot.py:198  TRUE iff a GitHubActionsClient exists
    handlers,           \* the handler coroutines, by order of event arrival
    resolver_requests,  \* getFile requests sent to the platform (file ids)
    dispatches,         \* repository_dispatch requests sent to the provider
    tempo,              \* process_video.py:81-102  one run of the filter construction
    probe,              \* one call of a GitHubActionsClient method, taken alone
    startup,            \* web_bot.py:26-49,197-203  how far the bot process has started
    job                 \* process_video.py:68-149  one run of the processing job

vars ==
    <<user_sessions, github_client, handlers, resolver_requests, dispatches, tempo, probe,
      startup, job>>

\* the part of the state the bot's handlers work on
botvars == <<user_sessions, github_client, handlers, resolver_requests, dispatches>>

(***************************************************************************)
(* Bounds                                                                  *)
(***************************************************************************)
MaxEvents == 3

\* events of the runs in which every awaited call is required to return
MaxLiveEvents == 2

\* events of the runs that begin with the start of the process
MaxStartupEvents == 2

Users == {"u1", "u2"}

EventIds == 1..MaxEvents

(***************************************************************************)
(* Text helpers                                                            *)
(***************************************************************************)
StartsWith(s, p) == Len(s) >= Len(p) /\ SubSeq(s, 1, Len(p)) = p

\* str.__contains__: needle occurs as a contiguous, case-sensitive substring
Contains(s, needle) ==
    \E i \in 1..(Len(s) - Len(needle) + 1) : SubSeq(s, i, i + Len(needle) - 1) = needle

RECURSIVE SplitFrom(_, _, _, _)
SplitFrom(s, sep, i, cur) ==
    IF i > Len(s) THEN <<cur>>
    ELSE IF s[i] = sep THEN <<cur>> \o SplitFrom(s, sep, i + 1, <<>>)
    ELSE SplitFrom(s, sep, i + 1, Append(cur, s[i]))

\* str.split(sep) for a one-character separator
Split(s, sep) == SplitFrom(s, sep, 1, <<>>)

Digits == {"0", "1", "2", "3", "4", "5", "6", "7", "8", "9"}

DigitVal(c) ==
    CASE c = "0" -> 0 [] c = "1" -> 1 [] c = "2" -> 2 [] c = "3" -> 3 [] c = "4" -> 4
      [] c = "5" -> 5 [] c = "6" -> 6 [] c = "7" -> 7 [] c = "8" -> 8 [] c = "9" -> 9

RECURSIVE DigitsVal(_)
DigitsVal(s) == IF s = <<>> THEN 0 ELSE 10 * DigitsVal(SubSeq(s, 1, Len(s) - 1)) + DigitVal(s[Len(s)])

AllDigits(s) == \A i \in 1..Len(s) : s[i] \in Digits

\* Speeds are kept exactly, in hundredths (150 is 1.5).
\* float(text) for plain decimal text: [sign] digits [. digits] with at most
\* two fractional digits.  Anything else of the inputs used here ("", "x")
\* raises ValueError: ok = FALSE.
ParseFloat(t) ==
    LET neg  == Len(t) > 0 /\ t[1] = "-"
        body == IF Len(t) > 0 /\ t[1] \in {"-", "+"} THEN SubSeq(t, 2, Len(t)) ELSE t
        parts == Split(body, ".")
        ip   == parts[1]
        fp   == IF Len(parts) = 2 THEN parts[2] ELSE <<>>
        wellformed == /\ Len(parts) \in {1, 2}
                      /\ AllDigits(ip) /\ AllDigits(fp)
                      /\ Len(ip) + Len(fp) > 0
                      /\ Len(fp) <= 2
        frac == IF Len(fp) = 0 THEN 0
                ELSE IF Len(fp) = 1 THEN 10 * DigitsVal(fp) ELSE DigitsVal(fp)
        mag  == 100 * DigitsVal(ip) + frac
    IN  IF wellformed THEN [ok |-> TRUE, val |-> IF neg THEN 0 - mag ELSE mag]
        ELSE [ok |-> FALSE, val |-> 0]

(***************************************************************************)
(* Callback payloads (event.data, decoded)                                 *)
(***************************************************************************)
CANCEL == <<"c", "a", "n", "c", "e", "l">>

SPEED_PREFIX == <<"s", "p", "e", "e", "d", "_">>

\* the menu button b"speed_1.5"
SPEED_1_5 == SPEED_PREFIX \o <<"1", ".", "5">>

\* a payload that starts with speed_ and does not parse
SPEED_BAD == SPEED_PREFIX \o <<"x">>

\* event.data empty: data = ""
EMPTY == <<>>

\* the payloads drawn by Spec: the cancel button and one speed button
CallbackData == {CANCEL, SPEED_1_5}

(***************************************************************************)
(* str() of the numbers put into the dispatch payload                      *)
(***************************************************************************)
DigitChar(d) ==
    CASE d = 0 -> "0" [] d = 1 -> "1" [] d = 2 -> "2" [] d = 3 -> "3" [] d = 4 -> "4"
      [] d = 5 -> "5" [] d = 6 -> "6" [] d = 7 -> "7" [] d = 8 -> "8" [] d = 9 -> "9"

RECURSIVE NatToText(_)
NatToText(n) == IF n < 10 THEN <<DigitChar(n)>> ELSE Append(NatToText(n \div 10), DigitChar(n % 10))

\* str(int)
IntToText(n) == IF n < 0 THEN <<"-">> \o NatToText(0 - n) ELSE NatToText(n)

\* str(float) of a speed held in hundredths: 150 -> "1.5", 200 -> "2.0", 75 -> "0.75"
FloatToText(v) ==
    LET a == IF v < 0 THEN 0 - v ELSE v
        f == a % 100
        fracText == IF f % 10 = 0 THEN <<DigitChar(f \div 10)>>
                    ELSE <<DigitChar(f \div 10), DigitChar(f % 10)>>
    IN  (IF v < 0 THEN <<"-">> ELSE <<>>) \o NatToText(a \div 100) \o <<".">> \o fracText

(***************************************************************************)
(* Uploads                                                                 *)
(***************************************************************************)
\* A byte count is kept as whole MiB plus remaining bytes (0 .. 2^20 - 1):
\* 2 * 1024 * 1024 * 1024 does not fit the model checker's integers.
BytesPerMiB == 1024 * 1024

\* web_bot.py:55   2 * 1024 * 1024 * 1024 bytes
MAX_FILE_SIZE == [mib |-> 2 * 1024, rem |-> 0]

\* file_size > MAX_FILE_SIZE on byte counts
SizeGT(a, b) == a.mib > b.mib \/ (a.mib = b.mib /\ a.rem > b.rem)

\* file_size / (1024 * 1024): the quotient, exact for these sizes
FileSizeMb(size) == [whole |-> size.mib, num |-> size.rem, den |-> BytesPerMiB]

\* The media objects the platform library hands to video_handler.  id is the
\* library's media.id; whether it is a number or text is the library's
\* choice, so both are drawn.  has_name: the object has a file_name attribute.
Media ==
    { [id |-> [type |-> "str", v |-> 71], has_name |-> TRUE, file_name |-> "clip.mov",
       size |-> [mib |-> 5, rem |-> 17], is_video |-> TRUE],
      [id |-> [type |-> "int", v |-> 72], has_name |-> FALSE, file_name |-> "",
       size |-> MAX_FILE_SIZE, is_video |-> FALSE],
      [id |-> [type |-> "str", v |-> 73], has_name |-> TRUE, file_name |-> "big.mkv",
       size |-> [mib |-> 2 * 1024, rem |-> 1], is_video |-> TRUE] }

\* event.chat_id of a private chat with user u
ChatId(u) == IF u = "u1" THEN 501 ELSE 502

\* web_bot.py:358  getattr(media, 'file_name', 'video.mp4')
FileName(media) == IF media.has_name THEN media.file_name ELSE "video.mp4"

\* web_bot.py:376-385  the dict stored for an upload ('media' is the same
\* object again and 'timestamp' the wall clock; neither is read afterwards)
NewSession(media, chat_id, message_id) ==
    [ file_id      |-> media.id,
      file_name    |-> FileName(media),
      file_size_mb |-> FileSizeMb(media.size),
      chat_id      |-> chat_id,
      message_id   |-> message_id,
      file_type    |-> IF media.is_video THEN "video" ELSE "document" ]

(***************************************************************************)
(* user_sessions: a dict, modelled as a function on the keys present       *)
(***************************************************************************)
Has(store, u) == u \in DOMAIN store

\* mutant of Put: user_sessions.setdefault(user_id, session)
PutIfAbsent(store, u, s) ==
    [x \in (DOMAIN store) \cup {u} |-> IF x \in DOMAIN store THEN store[x] ELSE s]

\* user_sessions[user_id] = session
Put(store, u, s) == [x \in (DOMAIN store) \cup {u} |-> IF x = u THEN s ELSE store[x]]

\* if user_id in user_sessions: del user_sessions[user_id]
Remove(store, u) == [x \in (DOMAIN store) \ {u} |-> store[x]]

(***************************************************************************)
(* GitHubActionsClient.get_direct_video_url                                *)
(***************************************************************************)
TOO_BIG_TEXT == <<"f", "i", "l", "e", " ", "i", "s", " ", "t", "o", "o", " ", "b", "i", "g">>

INVALID_TEXT == <<"i", "n", "v", "a", "l", "i", "d", " ", "f", "i", "l", "e", " ", "i", "d">>

WRONG_TEXT == <<"w", "r", "o", "n", "g", " ", "f", "i", "l", "e", " ", "i", "d">>

UNKNOWN_TEXT == <<"U", "n", "k", "n", "o", "w", "n", " ", "e", "r", "r", "o", "r">>

BAD_REQUEST == <<"B", "a", "d", " ", "R", "e", "q", "u", "e", "s", "t", ":", " ">>

\* Python values returned by the resolver: None, or a str
PyNone == [none |-> TRUE, text |-> <<>>]

PyStr(t) == [none |-> FALSE, text |-> t]

\* web_bot.py:90  file_id[:20] inside the try block: slicing a number raises
\* TypeError, which the except Exception clause turns into None before any
\* request is made
Sliceable(file_id) == file_id.type = "str"

\* What the platform can answer to a getFile request.
\*   transport_ok  FALSE: aiohttp.ClientError
\*   json_ok       FALSE: the body is not JSON
\*   has_desc/description, has_path/file_path: the keys of the JSON object
Response(transport_ok, status, json_ok, ok, has_desc, description, has_path, file_path) ==
    [ transport_ok |-> transport_ok, status |-> status, json_ok |-> json_ok, ok |-> ok,
      has_desc |-> has_desc, description |-> description,
      has_path |-> has_path, file_path |-> file_path ]

\* the getFile answers drawn for a request about file_id
PlatformResponses(file_id) ==
    { Response(TRUE, 200, TRUE, TRUE, FALSE, <<>>, TRUE, <<"videos", file_id.v>>),
      Response(TRUE, 400, TRUE, FALSE, TRUE, BAD_REQUEST \o TOO_BIG_TEXT, FALSE, <<>>),
      Response(TRUE, 200, TRUE, FALSE, TRUE, BAD_REQUEST \o TOO_BIG_TEXT, FALSE, <<>>),
      Response(TRUE, 200, TRUE, FALSE, TRUE, BAD_REQUEST \o INVALID_TEXT, FALSE, <<>>),
      Response(FALSE, 0, FALSE, FALSE, FALSE, <<>>, FALSE, <<>>) }

AllResponses == UNION {PlatformResponses(media.id) : media \in Media}

\* web_bot.py:104-118  the branch taken for ok = false
ClassifyDescription(r) ==
    LET error_desc == IF r.has_desc THEN r.description ELSE UNKNOWN_TEXT
    IN  IF Contains(error_desc, TOO_BIG_TEXT) THEN PyStr(<<"FILE_TOO_BIG">>)
        ELSE IF Contains(error_desc, INVALID_TEXT) THEN PyStr(<<"INVALID_FILE_ID">>)
        ELSE IF Contains(error_desc, WRONG_TEXT) THEN PyStr(<<"WRONG_FILE_ID">>)
        ELSE PyNone

\* mutant of ResolverResult: the path read with a default instead of by key
ResolverResultPathOptional(r) ==
    IF ~r.transport_ok THEN PyNone
    ELSE IF r.status # 200 THEN PyNone
    ELSE IF ~r.json_ok THEN PyNone
    ELSE IF ~r.ok THEN ClassifyDescription(r)
    ELSE PyStr(<<"https://api.telegram.org/file/bot", r.file_path>>)

\* web_bot.py:94-135  the value returned once the platform has answered
ResolverResult(r) ==
    IF ~r.transport_ok THEN PyNone
    ELSE IF r.status # 200 THEN PyNone
    ELSE IF ~r.json_ok THEN PyNone
    ELSE IF ~r.ok THEN ClassifyDescription(r)
    ELSE IF ~r.has_path THEN PyNone
    ELSE PyStr(<<"https://api.telegram.org/file/bot", r.file_path>>)

(***************************************************************************)
(* GitHubActionsClient.trigger_video_workflow                              *)
(***************************************************************************)
\* web_bot.py:146-155  client_payload (the timestamp is the wall clock)
DispatchPayload(video_url, speed, chat_id, message_id) ==
    [ video_url  |-> video_url,
      speed      |-> FloatToText(speed),
      chat_id    |-> IntToText(chat_id),
      message_id |-> IntToText(message_id) ]

\* what the provider can answer: a status, or 0 for a transport exception
ProviderAnswers == {204, 422, 0}

\* mutant of DispatchSucceeded: any 2xx status taken for success
DispatchSucceededAnySuccessStatus(answer) == answer \in 200..299

\* web_bot.py:164-182
DispatchSucceeded(answer) == answer = 204

(***************************************************************************)
(* Handler coroutines                                                      *)
(***************************************************************************)
\* A coroutine's position (pc, the await it is suspended on) and locals.
\*   media, session : a sequence of length 0 (unset) or 1
\*   failed_at      : the pc whose await (or "parse", for float()) raised
Idle ==
    [ pc |-> "idle", user |-> "", data |-> <<>>, media |-> <<>>, message_id |-> 0,
      speed |-> 0, session |-> <<>>, video_url |-> PyNone, failed_at |-> "" ]

\* the coroutine returned
Done == [Idle EXCEPT !.pc = "done"]

\* the coroutine ended with an exception that left the handler
Raised == [Idle EXCEPT !.pc = "raised"]

\* event.message.id of the upload that is event h
MessageId(h) == 900 + h

\* events are numbered in the order they arrive
NextEvent(h) ==
    /\ handlers[h].pc = "idle"
    /\ \A j \in EventIds : j < h => handlers[j].pc # "idle"

At(h, pc) == handlers[h].pc = pc

\* web_bot.py:518-527  the except clause of callback_handler: suspend on the
\* 'Unexpected error' edit; the cleanup follows when that edit returns
Raise(hr, at) == [hr EXCEPT !.pc = "error_edit", !.failed_at = at]

\* web_bot.py:73-81,197-203  the client exists iff both values are set, and
\* then holds them (token, repo: the value is non-empty); without a client
\* there is nothing to hold
\* mutant of NewGitHubClient: 'if GH_TOKEN or GH_REPO'
NewGitHubClientEitherValue(gh_token, gh_repo) ==
    [ exists |-> gh_token \/ gh_repo, token |-> gh_token, repo |-> gh_repo ]

NewGitHubClient(gh_token, gh_repo) ==
    [ exists |-> gh_token /\ gh_repo, token |-> gh_token /\ gh_repo, repo |-> gh_token /\ gh_repo ]

\* the processing job is another process: nothing of it runs in the bot
TempoIdle == [ pc |-> "idle" ]

\* no method call is looked at on its own
ProbeIdle == [ pc |-> "idle" ]

\* the bot process is up: the import went through and __init__ has run
Started == [ pc |-> "running" ]

\* no processing job runs
JobIdle == [ pc |-> "idle" ]

Init ==
    /\ user_sessions = << >>
    /\ \E gh_token, gh_repo \in BOOLEAN : github_client = NewGitHubClient(gh_token, gh_repo)
    /\ handlers = [h \in EventIds |-> Idle]
    /\ resolver_requests = <<>>
    /\ dispatches = <<>>
    /\ tempo = TempoIdle
    /\ probe = ProbeIdle
    /\ startup = Started
    /\ job = JobIdle

(***************************************************************************)
(* video_handler  (web_bot.py:345-403)                                     *)
(***************************************************************************)
\* mutant of TooLarge: file_size >= MAX_FILE_SIZE
TooLargeInclusive(media) == ~SizeGT(MAX_FILE_SIZE, media.size)

\* web_bot.py:365  the upload is refused
TooLarge(media) == SizeGT(media.size, MAX_FILE_SIZE)

\* web_bot.py:347-396  from the event to the first reply
VideoEvent(h, u, media) ==
    /\ NextEvent(h)
    /\ LET hr == [Idle EXCEPT !.user = u, !.media = <<media>>, !.message_id = MessageId(h)]
       IN  IF TooLarge(media)
           THEN /\ handlers' = [handlers EXCEPT ![h] = [hr EXCEPT !.pc = "toolarge_reply"]]
                /\ UNCHANGED user_sessions
           ELSE /\ user_sessions' = Put(user_sessions, u, NewSession(media, ChatId(u), MessageId(h)))
                /\ handlers' = [handlers EXCEPT ![h] = [hr EXCEPT !.pc = "menu_reply"]]
    /\ UNCHANGED <<github_client, resolver_requests, dispatches>>

\* web_bot.py:366-373  the 'File too large' reply returns or raises
TooLargeReplyReturn(h, ok) ==
    /\ At(h, "toolarge_reply")
    /\ handlers' = [handlers EXCEPT ![h] =
            IF ok THEN Done ELSE [@ EXCEPT !.pc = "error_reply", !.failed_at = "toolarge_reply"]]
    /\ UNCHANGED <<user_sessions, github_client, resolver_requests, dispatches>>

\* web_bot.py:388-396  the speed menu reply returns or raises
MenuReplyReturn(h, ok) ==
    /\ At(h, "menu_reply")
    /\ handlers' = [handlers EXCEPT ![h] =
            IF ok THEN Done ELSE [@ EXCEPT !.pc = "error_reply", !.failed_at = "menu_reply"]]
    /\ UNCHANGED <<user_sessions, github_client, resolver_requests, dispatches>>

\* web_bot.py:398-403  the reply inside the except clause is not guarded:
\* when it raises, the exception leaves video_handler
VideoErrorReplyReturn(h, ok) ==
    /\ At(h, "error_reply")
    /\ handlers' = [handlers EXCEPT ![h] = IF ok THEN Done ELSE Raised]
    /\ UNCHANGED <<user_sessions, github_client, resolver_requests, dispatches>>

(***************************************************************************)
(* callback_handler  (web_bot.py:405-527)                                  *)
(***************************************************************************)
\* web_bot.py:408-413  from the event to await event.get_message()
CallbackEvent(h, u, data) ==
    /\ NextEvent(h)
    /\ handlers' = [handlers EXCEPT ![h] = [Idle EXCEPT !.pc = "get_message", !.user = u, !.data = data]]
    /\ UNCHANGED <<user_sessions, github_client, resolver_requests, dispatches>>

\* web_bot.py:415-440  the branch taken once get_message has returned, up to
\* the next await
AfterGetMessage(hr, store, client) ==
    IF hr.data = CANCEL THEN [hr EXCEPT !.pc = "cancel_edit"]
    ELSE IF StartsWith(hr.data, SPEED_PREFIX) THEN
        LET parsed == ParseFloat(Split(hr.data, "_")[2])
        IN  IF ~parsed.ok THEN Raise(hr, "parse")
            ELSE IF ~Has(store, hr.user) THEN [hr EXCEPT !.pc = "nosession_edit", !.speed = parsed.val]
            ELSE IF ~client.exists THEN [hr EXCEPT !.pc = "notconf_edit", !.speed = parsed.val]
            ELSE [hr EXCEPT !.pc = "geturl_edit", !.speed = parsed.val,
                            !.session = <<store[hr.user]>>]
    ELSE Done

\* mutant of GetMessageReturn: one selection at a time per user, by waiting
\* until no other handler of the user is under way
GetMessageReturnWaitsForPeers(h, ok) ==
    /\ At(h, "get_message")
    /\ \A j \in EventIds \ {h} :
            handlers[j].user = handlers[h].user => handlers[j].pc \in {"idle", "done", "raised"}
    /\ handlers' = [handlers EXCEPT ![h] =
            IF ok THEN AfterGetMessage(@, user_sessions, github_client) ELSE Raise(@, "get_message")]
    /\ UNCHANGED <<user_sessions, github_client, resolver_requests, dispatches>>

GetMessageReturn(h, ok) ==
    /\ At(h, "get_message")
    /\ handlers' = [handlers EXCEPT ![h] =
            IF ok THEN AfterGetMessage(@, user_sessions, github_client) ELSE Raise(@, "get_message")]
    /\ UNCHANGED <<user_sessions, github_client, resolver_requests, dispatches>>

\* web_bot.py:416-419  the cancellation notice returns: remove and return
CancelEditReturn(h, ok) ==
    /\ At(h, "cancel_edit")
    /\ IF ok
       THEN /\ user_sessions' = Remove(user_sessions, handlers[h].user)
            /\ handlers' = [handlers EXCEPT ![h] = Done]
       ELSE /\ handlers' = [handlers EXCEPT ![h] = Raise(@, "cancel_edit")]
            /\ UNCHANGED user_sessions
    /\ UNCHANGED <<github_client, resolver_requests, dispatches>>

\* web_bot.py:425-427  'No video found' returns: return without cleanup
NoSessionEditReturn(h, ok) ==
    /\ At(h, "nosession_edit")
    /\ handlers' = [handlers EXCEPT ![h] = IF ok THEN Done ELSE Raise(@, "nosession_edit")]
    /\ UNCHANGED <<user_sessions, github_client, resolver_requests, dispatches>>

\* web_bot.py:430-435  'GitHub Actions not configured' returns: return
\* without cleanup
NotConfiguredEditReturn(h, ok) ==
    /\ At(h, "notconf_edit")
    /\ handlers' = [handlers EXCEPT ![h] = IF ok THEN Done ELSE Raise(@, "notconf_edit")]
    /\ UNCHANGED <<user_sessions, github_client, resolver_requests, dispatches>>

\* mutant of AfterResolver: only the 'not video_url' test, the tags taken
\* for URLs
AfterResolverTagsAsUrl(hr, video_url) ==
    LET r == [hr EXCEPT !.video_url = video_url]
    IN  IF video_url.none THEN [r EXCEPT !.pc = "urlfail_edit"]
        ELSE [r EXCEPT !.pc = "trigger_edit"]

\* web_bot.py:445-477  the branch taken on the resolver's value, up to the
\* next await
AfterResolver(hr, video_url) ==
    LET r == [hr EXCEPT !.video_url = video_url]
    IN  IF video_url.none THEN [r EXCEPT !.pc = "urlfail_edit"]
        ELSE IF video_url.text = <<"FILE_TOO_BIG">> THEN [r EXCEPT !.pc = "toobig_edit"]
        ELSE IF video_url.text \in {<<"INVALID_FILE_ID">>, <<"WRONG_FILE_ID">>}
             THEN [r EXCEPT !.pc = "fileid_edit"]
        ELSE [r EXCEPT !.pc = "trigger_edit"]

\* web_bot.py:440-443,85-93  'Getting video URL' returns; the resolver is
\* entered and runs up to its request, or fails before it
GetUrlEditReturn(h, ok) ==
    /\ At(h, "geturl_edit")
    /\ LET file_id == handlers[h].session[1].file_id
       IN  IF ~ok
           THEN /\ handlers' = [handlers EXCEPT ![h] = Raise(@, "geturl_edit")]
                /\ UNCHANGED resolver_requests
           ELSE IF Sliceable(file_id)
           THEN /\ resolver_requests' = Append(resolver_requests, file_id)
                /\ handlers' = [handlers EXCEPT ![h].pc = "resolver"]
           ELSE /\ handlers' = [handlers EXCEPT ![h] = AfterResolver(@, PyNone)]
                /\ UNCHANGED resolver_requests
    /\ UNCHANGED <<user_sessions, github_client, dispatches>>

\* web_bot.py:93-135,445-480  the platform answers the getFile request
ResolverReturn(h, response) ==
    /\ At(h, "resolver")
    /\ response \in PlatformResponses(handlers[h].session[1].file_id)
    /\ handlers' = [handlers EXCEPT ![h] = AfterResolver(@, ResolverResult(response))]
    /\ UNCHANGED <<user_sessions, github_client, resolver_requests, dispatches>>

\* web_bot.py:446-477  one of the three resolver failure messages returns:
\* remove and return
ResolverFailEditReturn(h, ok) ==
    /\ handlers[h].pc \in {"urlfail_edit", "toobig_edit", "fileid_edit"}
    /\ IF ok
       THEN /\ user_sessions' = Remove(user_sessions, handlers[h].user)
            /\ handlers' = [handlers EXCEPT ![h] = Done]
       ELSE /\ handlers' = [handlers EXCEPT ![h] = Raise(@, @.pc)]
            /\ UNCHANGED user_sessions
    /\ UNCHANGED <<github_client, resolver_requests, dispatches>>

\* web_bot.py:480-487,139-161  'Triggering GitHub Actions' returns;
\* trigger_video_workflow is entered and runs up to its request, built from
\* the local session
\* mutant of TriggerEditReturn: the routing coordinates read from the store
\* again when the dispatch is sent
TriggerEditReturnReadsStore(h, ok) ==
    /\ At(h, "trigger_edit")
    /\ LET hr == handlers[h]
           session == IF Has(user_sessions, hr.user) THEN user_sessions[hr.user] ELSE hr.session[1]
       IN  IF ~ok
           THEN /\ handlers' = [handlers EXCEPT ![h] = Raise(@, "trigger_edit")]
                /\ UNCHANGED dispatches
           ELSE IF ~github_client.token \/ ~github_client.repo
           THEN /\ handlers' = [handlers EXCEPT ![h].pc = "dispatchfail_edit"]
                /\ UNCHANGED dispatches
           ELSE /\ dispatches' = Append(dispatches,
                        DispatchPayload(hr.video_url.text, hr.speed, session.chat_id, session.message_id))
                /\ handlers' = [handlers EXCEPT ![h].pc = "dispatch"]
    /\ UNCHANGED <<user_sessions, github_client, resolver_requests>>

TriggerEditReturn(h, ok) ==
    /\ At(h, "trigger_edit")
    /\ LET hr == handlers[h]
           session == hr.session[1]
       IN  IF ~ok
           THEN /\ handlers' = [handlers EXCEPT ![h] = Raise(@, "trigger_edit")]
                /\ UNCHANGED dispatches
           ELSE IF ~github_client.token \/ ~github_client.repo
           THEN /\ handlers' = [handlers EXCEPT ![h].pc = "dispatchfail_edit"]
                /\ UNCHANGED dispatches
           ELSE /\ dispatches' = Append(dispatches,
                        DispatchPayload(hr.video_url.text, hr.speed, session.chat_id, session.message_id))
                /\ handlers' = [handlers EXCEPT ![h].pc = "dispatch"]
    /\ UNCHANGED <<user_sessions, github_client, resolver_requests>>

\* web_bot.py:161-182,489-512  the provider answers the dispatch request
DispatchReturn(h, answer) ==
    /\ At(h, "dispatch")
    /\ answer \in ProviderAnswers
    /\ handlers' = [handlers EXCEPT ![h].pc =
            IF DispatchSucceeded(answer) THEN "success_edit" ELSE "dispatchfail_edit"]
    /\ UNCHANGED <<user_sessions, github_client, resolver_requests, dispatches>>

\* mutant of OutcomeEditReturn: the handler returns after the outcome
\* message without the cleanup
OutcomeEditReturnNoCleanup(h, ok) ==
    /\ handlers[h].pc \in {"success_edit", "dispatchfail_edit"}
    /\ handlers' = [handlers EXCEPT ![h] = IF ok THEN Done ELSE Raise(@, @.pc)]
    /\ UNCHANGED <<user_sessions, github_client, resolver_requests, dispatches>>

\* web_bot.py:490-516  the success or the dispatch failure message returns:
\* cleanup
OutcomeEditReturn(h, ok) ==
    /\ handlers[h].pc \in {"success_edit", "dispatchfail_edit"}
    /\ IF ok
       THEN /\ user_sessions' = Remove(user_sessions, handlers[h].user)
            /\ handlers' = [handlers EXCEPT ![h] = Done]
       ELSE /\ handlers' = [handlers EXCEPT ![h] = Raise(@, @.pc)]
            /\ UNCHANGED user_sessions
    /\ UNCHANGED <<github_client, resolver_requests, dispatches>>

\* mutant of ErrorEditReturn: the cleanup placed inside the try, skipped
\* when the 'Unexpected error' edit raises
ErrorEditReturnCleanupInTry(h, ok) ==
    /\ At(h, "error_edit")
    /\ user_sessions' = IF ok THEN Remove(user_sessions, handlers[h].user) ELSE user_sessions
    /\ handlers' = [handlers EXCEPT ![h] = Done]
    /\ UNCHANGED <<github_client, resolver_requests, dispatches>>

\* web_bot.py:520-527  the 'Unexpected error' edit returns or raises (its
\* exception is swallowed): cleanup on error
ErrorEditReturn(h, ok) ==
    /\ At(h, "error_edit")
    /\ user_sessions' = Remove(user_sessions, handlers[h].user)
    /\ handlers' = [handlers EXCEPT ![h] = Done]
    /\ UNCHANGED <<github_client, resolver_requests, dispatches>>

(***************************************************************************)
(* Specification                                                           *)
(***************************************************************************)
\* The events drawn.  u1 sends every upload and every payload; u2, whose
\* entry of user_sessions the handlers of u1 must leave alone, sends the
\* plain upload.
PlainMedia == CHOOSE media \in Media : media.id.type = "str" /\ ~TooLarge(media)

Uploads == ({"u1"} \X Media) \cup {<<"u2", PlainMedia>>}

Callbacks == {"u1"} \X CallbackData

\* the handlers leave the processing job and the single calls alone
Rest == UNCHANGED <<tempo, probe, startup, job>>

\* an update arrives and its handler starts
Arrival(h) ==
    \/ (\E e \in Uploads : VideoEvent(h, e[1], e[2])) /\ Rest
    \/ (\E e \in Callbacks : CallbackEvent(h, e[1], e[2])) /\ Rest

\* an awaited call of handler h returns or raises
Return(h) ==
    \/ (\E ok \in BOOLEAN : TooLargeReplyReturn(h, ok)) /\ Rest
    \/ (\E ok \in BOOLEAN : MenuReplyReturn(h, ok)) /\ Rest
    \/ (\E ok \in BOOLEAN : VideoErrorReplyReturn(h, ok)) /\ Rest
    \/ (\E ok \in BOOLEAN : GetMessageReturn(h, ok)) /\ Rest
    \/ (\E ok \in BOOLEAN : CancelEditReturn(h, ok)) /\ Rest
    \/ (\E ok \in BOOLEAN : NoSessionEditReturn(h, ok)) /\ Rest
    \/ (\E ok \in BOOLEAN : NotConfiguredEditReturn(h, ok)) /\ Rest
    \/ (\E ok \in BOOLEAN : GetUrlEditReturn(h, ok)) /\ Rest
    \/ (\E response \in AllResponses : ResolverReturn(h, response)) /\ Rest
    \/ (\E ok \in BOOLEAN : ResolverFailEditReturn(h, ok)) /\ Rest
    \/ (\E ok \in BOOLEAN : TriggerEditReturn(h, ok)) /\ Rest
    \/ (\E answer \in ProviderAnswers : DispatchReturn(h, answer)) /\ Rest
    \/ (\E ok \in BOOLEAN : OutcomeEditReturn(h, ok)) /\ Rest
    \/ (\E ok \in BOOLEAN : ErrorEditReturn(h, ok)) /\ Rest

Next == \E h \in EventIds : Arrival(h) \/ Return(h)

Spec == Init /\ [][Next]_vars

\* The same handlers under the assumption that every awaited call (reply,
\* edit, resolver, dispatch) returns or raises in the end: an await that can
\* return does return.  Nothing is assumed about the arrival of updates.
LiveEventIds == 1..MaxLiveEvents

LiveNext == \E h \in LiveEventIds : Arrival(h) \/ Return(h)

SpecLive == Init /\ [][LiveNext]_vars /\ \A h \in LiveEventIds : WF_vars(Return(h))

(***************************************************************************)
(* Callback payloads outside the menu.  CallbackQuery accepts any payload  *)
(* a client sends (web_bot.py:405-409), so the handler also runs for data  *)
(* that no button of the menu carries.                                     *)
(***************************************************************************)
MaxPayloadEvents == 2

PayloadEventIds == 1..MaxPayloadEvents

\* a tag that is neither cancel nor speed_
UNKNOWN == <<"h", "e", "l", "p">>

\* speed_ with nothing after it: float("") raises ValueError
SPEED_NONE == SPEED_PREFIX

\* float("0") = 0.0
SPEED_0 == SPEED_PREFIX \o <<"0">>

\* float("-1") = -1.0
SPEED_NEG == SPEED_PREFIX \o <<"-", "1">>

PayloadData == {CANCEL, SPEED_1_5, SPEED_BAD, SPEED_NONE, EMPTY, UNKNOWN, SPEED_0, SPEED_NEG}

PayloadArrival(h) ==
    \/ (\E e \in Uploads : VideoEvent(h, e[1], e[2])) /\ Rest
    \/ (\E data \in PayloadData : CallbackEvent(h, "u1", data)) /\ Rest

PayloadNext == \E h \in PayloadEventIds : PayloadArrival(h) \/ Return(h)

SpecPayload == Init /\ [][PayloadNext]_vars

(***************************************************************************)
(* The start of the bot process  (web_bot.py:26-49, 197-203)               *)
(***************************************************************************)
MandatoryVars == {"API_ID", "API_HASH", "SESSION_STRING", "BOT_TOKEN"}

ProviderVars == {"GH_TOKEN", "GH_REPO"}

EnvVars == MandatoryVars \cup ProviderVars

\* web_bot.py:36-40  env: the variables that are set to a non-empty value
MISSING_VARS(env) == MandatoryVars \ env

StartupEventIds == 1..MaxStartupEvents

\* before __init__ there is no client object
StartupInit ==
    /\ user_sessions = << >>
    /\ github_client = NewGitHubClient(FALSE, FALSE)
    /\ handlers = [h \in EventIds |-> Idle]
    /\ resolver_requests = <<>>
    /\ dispatches = <<>>
    /\ tempo = TempoIdle
    /\ probe = ProbeIdle
    /\ \E env \in SUBSET EnvVars : startup = [pc |-> "import", env |-> env]
    /\ job = JobIdle

\* web_bot.py:26-49  the module is imported: sys.exit(1) when a mandatory
\* variable is missing, a warning only when a provider variable is
Import ==
    /\ startup.pc = "import"
    /\ startup' = [startup EXCEPT !.pc = IF MISSING_VARS(startup.env) # {} THEN "exited" ELSE "init"]
    /\ UNCHANGED <<botvars, tempo, probe, job>>

\* web_bot.py:197-203  TelegramGitHubBot.__init__ builds the client, or not;
\* from then on the handlers are registered and updates are served
BotInit ==
    /\ startup.pc = "init"
    /\ github_client' = NewGitHubClient("GH_TOKEN" \in startup.env, "GH_REPO" \in startup.env)
    /\ startup' = [startup EXCEPT !.pc = "running"]
    /\ UNCHANGED <<user_sessions, handlers, resolver_requests, dispatches, tempo, probe, job>>

\* an update is served by the running process
Serve ==
    /\ startup.pc = "running"
    /\ \E h \in StartupEventIds : Arrival(h) \/ Return(h)

StartupNext ==
    \/ Import
    \/ BotInit
    \/ Serve

SpecStartup == StartupInit /\ [][StartupNext]_vars

(***************************************************************************)
(* The filter construction of the processing job                           *)
(* (process_video.py:10,81-102)                                            *)
(*                                                                         *)
(* A float is held exactly.  With eps = 0 it is the rational n/d (d > 0).  *)
(* With eps # 0 it is the double nearest to the decimal n/d, which is not  *)
(* that decimal but lies just above (eps = 1) or just below (eps = -1) it, *)
(* closer than any distance the construction can resolve.  Halving and     *)
(* doubling a double are exact, so both keep n/d exact and eps as it is.   *)
(***************************************************************************)
MaxSpeedNum == 400

MaxStages == 8

SpeedDen == 2^6

Float(n, d, eps) == [ n |-> n, d |-> d, eps |-> eps ]

\* x > a/b and x < a/b, for a/b a double (b > 0)
GT(x, a, b) == x.n * b > a * x.d \/ (x.n * b = a * x.d /\ x.eps > 0)

LT(x, a, b) == x.n * b < a * x.d \/ (x.n * b = a * x.d /\ x.eps < 0)

\* the literals "atempo=2.0" and "atempo=0.5"
TWO == Float(2, 1, 0)

HALF == Float(1, 2, 0)

\* mutant of Halve: 'remaining -= 2.0'
HalveBySubtracting(x) == [x EXCEPT !.n = @ - 2 * x.d]

\* process_video.py:87  remaining /= 2.0
Halve(x) == [x EXCEPT !.d = 2 * @]

\* mutant of Double: 'remaining /= 2.0', as in the other branch
DoubleByHalving(x) == [x EXCEPT !.d = 2 * @]

\* process_video.py:95  remaining *= 2.0
Double(x) == [x EXCEPT !.n = 2 * @]

\* mutant of RoundHalfEven: the digits after the kept ones are cut off
RoundDown(num, den, eps) ==
    IF num % den = 0 /\ eps < 0 THEN (num \div den) - 1 ELSE num \div den

\* The integer nearest to num/den (+ eps), den > 0: what a fixed-point
\* format of a double prints, a tie going to the even neighbour.
RoundHalfEven(num, den, eps) ==
    LET q == num \div den
        r == num % den
    IN  IF 2 * r < den THEN q
        ELSE IF 2 * r > den THEN q + 1
        ELSE IF eps > 0 THEN q + 1
        ELSE IF eps < 0 THEN q
        ELSE IF q % 2 = 0 THEN q ELSE q + 1

\* process_video.py:88,96  f"{remaining:.2f}": the hundredths printed
Format2(x) == Float(RoundHalfEven(100 * x.n, x.d, x.eps), 100, 0)

\* mutant of Repr: the single stage printed like the last stage of a chain
ReprTwoDecimals(x) == Format2(x)

\* process_video.py:99  f"{speed}": str(float) prints the shortest decimal
\* that reads back as the same double; for the speeds drawn here that is
\* the decimal expansion of n/d, which has at most six decimals
Repr(x) == Float((1000000 * x.n) \div x.d, 1000000, x.eps)

\* process_video.py:102  f"{1/SPEED:.5f}": the hundred-thousandths printed
\* (SPEED > 0; the quotient is a double within 1e-16 of d/n, which cannot
\* move it across a rounding boundary for the speeds drawn here)
Format5Inverse(x) == Float(RoundHalfEven(100000 * x.d, x.n, 0 - x.eps), 100000, 0)

\* mutant of WhileFast: 'while remaining >= 2.0'
WhileFastInclusive(remaining) == ~LT(remaining, 2, 1)

\* process_video.py:85  while remaining > 2.0
WhileFast(remaining) == GT(remaining, 2, 1)

\* process_video.py:93  while remaining < 0.5
WhileSlow(remaining) == LT(remaining, 1, 2)

\* process_video.py:10  SPEED = float(os.environ.get('SPEED', '1.5')): the
\* doubles k/64 from -2/64 on (0 and the speeds of the bot's menu among
\* them), some doubles that are not a short decimal, and two large ones
TempoSpeeds ==
    {Float(m, SpeedDen, 0) : m \in (0 - 2)..MaxSpeedNum}
    \cup {Float(1, 5, 1), Float(1, 10, 1), Float(3, 10, 0 - 1), Float(1, 20, 1),
          Float(401, 100, 0 - 1), Float(201, 100, 0 - 1)}
    \cup {Float(17, 1, 0), Float(100, 1, 0)}

TempoStart(speed) ==
    [ pc |-> "start", SPEED |-> speed, remaining |-> speed, atempo_filters |-> <<>>,
      audio_filter |-> <<>>, video_filter |-> <<>> ]

TempoInit ==
    /\ user_sessions = << >>
    /\ github_client = NewGitHubClient(FALSE, FALSE)
    /\ handlers = [h \in EventIds |-> Idle]
    /\ resolver_requests = <<>>
    /\ dispatches = <<>>
    /\ \E speed \in TempoSpeeds : tempo = TempoStart(speed)
    /\ probe = ProbeIdle
    /\ startup = Started
    /\ job = JobIdle

\* process_video.py:101,81-84,90-92,98-99  create_audio_filter(SPEED) is
\* called: the branch on speed, up to the first test of a loop
CreateAudioFilter ==
    /\ tempo.pc = "start"
    /\ tempo' =
         IF GT(tempo.SPEED, 2, 1) THEN [tempo EXCEPT !.pc = "while_fast"]
         ELSE IF LT(tempo.SPEED, 1, 2) THEN [tempo EXCEPT !.pc = "while_slow"]
         ELSE [tempo EXCEPT !.pc = "video_filter", !.audio_filter = <<Repr(tempo.SPEED)>>]
    /\ UNCHANGED <<botvars, probe, startup, job>>

\* process_video.py:85-87  one round of the loop of the speed > 2.0 branch
WhileFastBody ==
    /\ tempo.pc = "while_fast"
    /\ WhileFast(tempo.remaining)
    /\ Len(tempo.atempo_filters) < MaxStages
    /\ tempo' = [tempo EXCEPT !.atempo_filters = Append(@, TWO),
                              !.remaining = Halve(@)]
    /\ UNCHANGED <<botvars, probe, startup, job>>

\* process_video.py:85,88-89  the loop is left: the last stage, and the return
WhileFastExit ==
    /\ tempo.pc = "while_fast"
    /\ ~WhileFast(tempo.remaining)
    /\ tempo' = [tempo EXCEPT !.pc = "video_filter",
                              !.audio_filter = Append(tempo.atempo_filters, Format2(tempo.remaining))]
    /\ UNCHANGED <<botvars, probe, startup, job>>

\* process_video.py:93-95  one round of the loop of the speed < 0.5 branch
WhileSlowBody ==
    /\ tempo.pc = "while_slow"
    /\ WhileSlow(tempo.remaining)
    /\ Len(tempo.atempo_filters) < MaxStages
    /\ tempo' = [tempo EXCEPT !.atempo_filters = Append(@, HALF),
                              !.remaining = Double(@)]
    /\ UNCHANGED <<botvars, probe, startup, job>>

\* process_video.py:93,96-97  the loop is left: the last stage, and the return
WhileSlowExit ==
    /\ tempo.pc = "while_slow"
    /\ ~WhileSlow(tempo.remaining)
    /\ tempo' = [tempo EXCEPT !.pc = "video_filter",
                              !.audio_filter = Append(tempo.atempo_filters, Format2(tempo.remaining))]
    /\ UNCHANGED <<botvars, probe, startup, job>>

\* process_video.py:102  video_filter = f"setpts={1/SPEED:.5f}*PTS"; a
\* division by zero raises, and the except clause at 147 ends the job
VideoFilter ==
    /\ tempo.pc = "video_filter"
    /\ tempo' =
         IF tempo.SPEED.n = 0 THEN [tempo EXCEPT !.pc = "raised"]
         ELSE [tempo EXCEPT !.pc = "done", !.video_filter = <<Format5Inverse(tempo.SPEED)>>]
    /\ UNCHANGED <<botvars, probe, startup, job>>

TempoNext ==
    \/ CreateAudioFilter
    \/ WhileFastBody
    \/ WhileFastExit
    \/ WhileSlowBody
    \/ WhileSlowExit
    \/ VideoFilter

SpecTempo == TempoInit /\ [][TempoNext]_vars

\* the interpreter goes on executing the construction as long as it can
SpecTempoFair == SpecTempo /\ WF_vars(TempoNext)

(***************************************************************************)
(* One run of the processing job  (process_video.py:68-149)                *)
(*                                                                         *)
(* One action is the code from one blocking call (a Telegram request, the  *)
(* download, the transcoder) to the next.  files is what the run has left  *)
(* in its working directory, messages what it has told the chat.           *)
(* send_telegram_message and send_telegram_video catch their own           *)
(* exceptions (22-27, 40-45).                                              *)
(***************************************************************************)
\* process_video.py:10  SPEED, in hundredths: the speeds of the bot's menu
\* (web_bot.py:58-63)
JobSpeeds == {50, 75, 125, 150, 200, 300}

INPUT_FILE == "input.mp4"

OUTPUT_FILE == "output.mp4"

JobStart(speed) ==
    [ pc |-> "start_message", SPEED |-> speed, files |-> {}, messages |-> <<>>,
      result |-> "none" ]

JobInit ==
    /\ user_sessions = << >>
    /\ github_client = NewGitHubClient(FALSE, FALSE)
    /\ handlers = [h \in EventIds |-> Idle]
    /\ resolver_requests = <<>>
    /\ dispatches = <<>>
    /\ tempo = TempoIdle
    /\ probe = ProbeIdle
    /\ startup = Started
    /\ \E speed \in JobSpeeds : job = JobStart(speed)

\* process_video.py:147-149  an exception is caught: the except clause
\* reports it (next action) and returns False
JobRaise(j) == [j EXCEPT !.pc = "except_message"]

\* process_video.py:72,14-27  send_telegram_message('Processing started')
\* has returned: the message went out, or the request failed and the
\* function printed the error and returned None
StartMessage(ok) ==
    /\ job.pc = "start_message"
    /\ job' = [job EXCEPT !.pc = "download",
                          !.messages = IF ok THEN Append(@, "Processing started") ELSE @]
    /\ UNCHANGED <<botvars, tempo, probe, startup>>

\* process_video.py:75-78,47-66  download_file returns True or raises; it
\* raises before the file is opened (the GET fails) or after (the stream
\* breaks), and in the second case the file is there
Download(outcome) ==
    /\ job.pc = "download"
    /\ job' =
         CASE outcome = "ok" -> [job EXCEPT !.pc = "ffmpeg", !.files = @ \cup {INPUT_FILE}]
           [] outcome = "refused" -> JobRaise(job)
           [] outcome = "broken" -> JobRaise([job EXCEPT !.files = @ \cup {INPUT_FILE}])
    /\ UNCHANGED <<botvars, tempo, probe, startup>>

\* process_video.py:101-119  the filters are built (they are, for a speed
\* of the menu) and the transcoder has run: it exits with 0 and the output
\* written, or with another code, with or without an output file; or it
\* cannot be started and subprocess.run raises
Ffmpeg(outcome) ==
    /\ job.pc = "ffmpeg"
    /\ job' =
         CASE outcome = "ok" -> [job EXCEPT !.pc = "complete_message", !.files = @ \cup {OUTPUT_FILE}]
           [] outcome = "failed" -> [job EXCEPT !.pc = "failed_message"]
           [] outcome = "failed_partial" ->
                [job EXCEPT !.pc = "failed_message", !.files = @ \cup {OUTPUT_FILE}]
           [] outcome = "missing" -> JobRaise(job)
    /\ UNCHANGED <<botvars, tempo, probe, startup>>

\* process_video.py:119-122  'Processing failed' has been sent: return False
FailedMessage ==
    /\ job.pc = "failed_message"
    /\ job' = [job EXCEPT !.pc = "returned", !.result = "False",
                          !.messages = Append(@, "Processing failed")]
    /\ UNCHANGED <<botvars, tempo, probe, startup>>

\* process_video.py:124-130  'Processing complete' has been sent
CompleteMessage ==
    /\ job.pc = "complete_message"
    /\ job' = [job EXCEPT !.pc = "upload", !.messages = Append(@, "Processing complete")]
    /\ UNCHANGED <<botvars, tempo, probe, startup>>

\* process_video.py:132-134  send_telegram_video has returned
Upload(ok) ==
    /\ job.pc = "upload"
    /\ job' = [job EXCEPT !.pc = IF ok THEN "done_message" ELSE "upload_failed_message"]
    /\ UNCHANGED <<botvars, tempo, probe, startup>>

\* process_video.py:134-145  'Done' or 'Failed to upload video' has been
\* sent: both files are removed, return True
OutcomeMessage ==
    /\ job.pc \in {"done_message", "upload_failed_message"}
    /\ job' = [job EXCEPT !.pc = "returned", !.result = "True",
                          !.files = (@ \ {INPUT_FILE}) \ {OUTPUT_FILE},
                          !.messages = Append(@, IF job.pc = "done_message" THEN "Done"
                                                 ELSE "Failed to upload video")]
    /\ UNCHANGED <<botvars, tempo, probe, startup>>

\* process_video.py:147-149  'Error' has been sent: return False
ExceptMessage ==
    /\ job.pc = "except_message"
    /\ job' = [job EXCEPT !.pc = "returned", !.result = "False", !.messages = Append(@, "Error")]
    /\ UNCHANGED <<botvars, tempo, probe, startup>>

JobNext ==
    \/ \E ok \in BOOLEAN : StartMessage(ok)
    \/ \E outcome \in {"ok", "refused", "broken"} : Download(outcome)
    \/ \E outcome \in {"ok", "failed", "failed_partial", "missing"} : Ffmpeg(outcome)
    \/ FailedMessage
    \/ CompleteMessage
    \/ \E ok \in BOOLEAN : Upload(ok)
    \/ OutcomeMessage
    \/ ExceptMessage

SpecJob == JobInit /\ [][JobNext]_vars

(***************************************************************************)
(* One call of a GitHubActionsClient method, and one failure report of a   *)
(* handler, each taken alone (web_bot.py:83-182, 365-372, 430-512)         *)
(***************************************************************************)
\* reasons in other letter case than the one the resolver looks for
TOO_BIG_CAPITAL == <<"F", "i", "l", "e", " ", "i", "s", " ", "t", "o", "o", " ", "b", "i", "g">>

TOO_BIG_UPPER == <<"F", "I", "L", "E", " ", "I", "S", " ", "T", "O", "O", " ", "B", "I", "G">>

INVALID_CAPITAL == <<"I", "n", "v", "a", "l", "i", "d", " ", "f", "i", "l", "e", " ", "i", "d">>

WRONG_UPPER == <<"W", "R", "O", "N", "G", " ", "F", "I", "L", "E", " ", "I", "D">>

NOT_FOUND_TEXT == <<"c", "h", "a", "t", " ", "n", "o", "t", " ", "f", "o", "u", "n", "d">>

ProbeDescriptions ==
    { BAD_REQUEST \o TOO_BIG_TEXT, BAD_REQUEST \o INVALID_TEXT, BAD_REQUEST \o WRONG_TEXT,
      BAD_REQUEST \o TOO_BIG_CAPITAL, TOO_BIG_UPPER, BAD_REQUEST \o INVALID_CAPITAL,
      WRONG_UPPER, BAD_REQUEST \o NOT_FOUND_TEXT, TOO_BIG_TEXT }

ProbeStatuses == {200, 400, 500}

\* what the platform can answer to a getFile request about file_id: no
\* answer (transport failure), a body that is not JSON, ok = false with a
\* description or without one, ok = true with a file path or without one
ProbeResponses(file_id) ==
    {Response(FALSE, 0, FALSE, FALSE, FALSE, <<>>, FALSE, <<>>)}
    \cup {Response(TRUE, status, FALSE, FALSE, FALSE, <<>>, FALSE, <<>>) : status \in ProbeStatuses}
    \cup {Response(TRUE, x[1], TRUE, FALSE, TRUE, x[2], FALSE, <<>>) :
              x \in ProbeStatuses \X ProbeDescriptions}
    \cup {Response(TRUE, status, TRUE, FALSE, FALSE, <<>>, FALSE, <<>>) : status \in ProbeStatuses}
    \cup {Response(TRUE, 200, TRUE, TRUE, FALSE, <<>>, TRUE, <<"videos", file_id.v>>),
          Response(TRUE, 200, TRUE, TRUE, FALSE, <<>>, FALSE, <<>>)}

FileIds == {media.id : media \in Media}

AllProbeResponses == UNION {ProbeResponses(file_id) : file_id \in FileIds}

\* what the provider can answer to a dispatch: a status, or 0 for a
\* transport exception
ProbeAnswers == {0, 200, 201, 204, 404, 422, 500}

\* web_bot.py:73-81  a GitHubActionsClient built from any two values
Clients == {[token |-> t, repo |-> r] : t, r \in BOOLEAN}

\* the arguments of one trigger_video_workflow call; speeds in hundredths
TriggerArgs ==
    {[client |-> c, video_url |-> <<"https://api.telegram.org/file/bot", <<"videos", 71>>>>,
      speed |-> sp, chat_id |-> ChatId("u1"), message_id |-> MessageId(1)] :
        c \in Clients, sp \in {50, 300}}

\* One handler run that ends in a failure report, given by what it meets:
\* the upload, the client, the platform's answer and the provider's answer.
\* class is the failure class the run is an instance of.
Scenario(class, media, client, response, answer) ==
    [ class |-> class, media |-> media, client |-> client, response |-> response,
      answer |-> answer ]

OkResponse(media) == Response(TRUE, 200, TRUE, TRUE, FALSE, <<>>, TRUE, <<"videos", media.id.v>>)

Refusal(description) == Response(TRUE, 200, TRUE, FALSE, TRUE, description, FALSE, <<>>)

FailureScenarios ==
    LET big == CHOOSE media \in Media : TooLarge(media)
        on == NewGitHubClient(TRUE, TRUE)
        off == NewGitHubClient(TRUE, FALSE)
        okay == OkResponse(PlainMedia)
    IN  { Scenario("Oversize", big, on, okay, 204),
          Scenario("NotConfigured", PlainMedia, off, okay, 204),
          Scenario("FileTooBig", PlainMedia, on, Refusal(BAD_REQUEST \o TOO_BIG_TEXT), 204),
          Scenario("InvalidHandle", PlainMedia, on, Refusal(BAD_REQUEST \o INVALID_TEXT), 204),
          Scenario("MalformedHandle", PlainMedia, on, Refusal(BAD_REQUEST \o WRONG_TEXT), 204),
          Scenario("ResolverFailure", PlainMedia, on,
                   Response(FALSE, 0, FALSE, FALSE, FALSE, <<>>, FALSE, <<>>), 204),
          Scenario("ResolverFailure", PlainMedia, on, Refusal(BAD_REQUEST \o NOT_FOUND_TEXT), 204),
          Scenario("DispatchFailure", PlainMedia, on, okay, 422),
          Scenario("DispatchFailure", PlainMedia, on, okay, 0) }

\* web_bot.py:365,425-512  the await at which the run of scenario s reports
\* its outcome when every status edit on the way succeeds: video_handler on
\* the upload; then, for an accepted upload, callback_handler on speed_1.5
FailurePc(s) ==
    IF TooLarge(s.media) THEN "toolarge_reply"
    ELSE
        LET store == Put(<< >>, "u1", NewSession(s.media, ChatId("u1"), MessageId(1)))
            selected == AfterGetMessage([Idle EXCEPT !.user = "u1", !.data = SPEED_1_5],
                                        store, s.client)
            video_url == IF Sliceable(s.media.id) THEN ResolverResult(s.response) ELSE PyNone
            resolved == AfterResolver(selected, video_url)
        IN  IF selected.pc # "geturl_edit" THEN selected.pc
            ELSE IF resolved.pc # "trigger_edit" THEN resolved.pc
            ELSE IF DispatchSucceeded(s.answer) THEN "success_edit"
            ELSE "dispatchfail_edit"

\* mutant of ReplyText: one message for every failure of the resolver
ReplyTextOneResolverMessage(pc) ==
    CASE pc = "toolarge_reply" -> "File too large!"
      [] pc = "menu_reply" -> "Video received successfully!"
      [] pc = "error_reply" -> "Error processing video:"
      [] pc = "cancel_edit" -> "Operation cancelled."
      [] pc = "nosession_edit" -> "No video found!"
      [] pc = "notconf_edit" -> "GitHub Actions not configured!"
      [] pc = "geturl_edit" -> "Getting video URL..."
      [] pc \in {"urlfail_edit", "toobig_edit", "fileid_edit"} -> "Failed to get video URL!"
      [] pc = "trigger_edit" -> "Triggering GitHub Actions..."
      [] pc = "success_edit" -> "GitHub Actions triggered successfully!"
      [] pc = "dispatchfail_edit" -> "Failed to trigger GitHub Actions!"
      [] pc = "error_edit" -> "Unexpected error:"

\* web_bot.py:367,389,401,416,426,432,440,447,461,471,480,491,505,521
\* the heading of the message sent at each await that sends one
ReplyText(pc) ==
    CASE pc = "toolarge_reply" -> "File too large!"
      [] pc = "menu_reply" -> "Video received successfully!"
      [] pc = "error_reply" -> "Error processing video:"
      [] pc = "cancel_edit" -> "Operation cancelled."
      [] pc = "nosession_edit" -> "No video found!"
      [] pc = "notconf_edit" -> "GitHub Actions not configured!"
      [] pc = "geturl_edit" -> "Getting video URL..."
      [] pc = "urlfail_edit" -> "Failed to get video URL!"
      [] pc = "toobig_edit" -> "File too large for bot API!"
      [] pc = "fileid_edit" -> "File ID error!"
      [] pc = "trigger_edit" -> "Triggering GitHub Actions..."
      [] pc = "success_edit" -> "GitHub Actions triggered successfully!"
      [] pc = "dispatchfail_edit" -> "Failed to trigger GitHub Actions!"
      [] pc = "error_edit" -> "Unexpected error:"

\* requests, answer, result: a sequence of length 0 (none yet) or 1
ProbeCall(fn, arg) ==
    [ pc |-> "call", fn |-> fn, arg |-> arg, requests |-> <<>>, answer |-> <<>>,
      result |-> <<>> ]

ProbeCalls ==
    {ProbeCall("get_direct_video_url", file_id) : file_id \in FileIds}
    \cup {ProbeCall("trigger_video_workflow", args) : args \in TriggerArgs}
    \cup {ProbeCall("failure_report", s) : s \in FailureScenarios}

ProbeInit ==
    /\ user_sessions = << >>
    /\ github_client = NewGitHubClient(FALSE, FALSE)
    /\ handlers = [h \in EventIds |-> Idle]
    /\ resolver_requests = <<>>
    /\ dispatches = <<>>
    /\ tempo = TempoIdle
    /\ probe \in ProbeCalls
    /\ startup = Started
    /\ job = JobIdle

\* web_bot.py:83-93  get_direct_video_url(file_id) up to the getFile
\* request; the log line at 90 slices file_id, and for a number that raises
\* inside the try block: except Exception returns None
GetDirectVideoUrlCall ==
    /\ probe.pc = "call"
    /\ probe.fn = "get_direct_video_url"
    /\ probe' = IF Sliceable(probe.arg)
                THEN [probe EXCEPT !.pc = "request", !.requests = <<probe.arg>>]
                ELSE [probe EXCEPT !.pc = "returned", !.result = <<PyNone>>]
    /\ UNCHANGED <<botvars, tempo, startup, job>>

\* web_bot.py:94-135  the platform has answered, or the request failed
GetDirectVideoUrlAnswer(response) ==
    /\ probe.pc = "request"
    /\ probe.fn = "get_direct_video_url"
    /\ response \in ProbeResponses(probe.arg)
    /\ probe' = [probe EXCEPT !.pc = "returned", !.answer = <<response>>,
                              !.result = <<ResolverResult(response)>>]
    /\ UNCHANGED <<botvars, tempo, startup, job>>

\* web_bot.py:137-162  trigger_video_workflow up to the POST
TriggerVideoWorkflowCall ==
    /\ probe.pc = "call"
    /\ probe.fn = "trigger_video_workflow"
    /\ LET a == probe.arg
       IN  probe' = IF ~a.client.token \/ ~a.client.repo
                    THEN [probe EXCEPT !.pc = "returned", !.result = <<FALSE>>]
                    ELSE [probe EXCEPT !.pc = "request",
                             !.requests = <<DispatchPayload(a.video_url, a.speed, a.chat_id, a.message_id)>>]
    /\ UNCHANGED <<botvars, tempo, startup, job>>

\* web_bot.py:162-182  the provider has answered, or the request failed
TriggerVideoWorkflowAnswer(answer) ==
    /\ probe.pc = "request"
    /\ probe.fn = "trigger_video_workflow"
    /\ probe' = [probe EXCEPT !.pc = "returned", !.answer = <<answer>>,
                              !.result = <<DispatchSucceeded(answer)>>]
    /\ UNCHANGED <<botvars, tempo, startup, job>>

\* the run of a scenario reports its failure
FailureReport ==
    /\ probe.pc = "call"
    /\ probe.fn = "failure_report"
    /\ probe' = [probe EXCEPT !.pc = "returned", !.result = <<ReplyText(FailurePc(probe.arg))>>]
    /\ UNCHANGED <<botvars, tempo, startup, job>>

ProbeNext ==
    \/ GetDirectVideoUrlCall
    \/ \E response \in AllProbeResponses : GetDirectVideoUrlAnswer(response)
    \/ TriggerVideoWorkflowCall
    \/ \E answer \in ProbeAnswers : TriggerVideoWorkflowAnswer(answer)
    \/ FailureReport

SpecProbe == ProbeInit /\ [][ProbeNext]_vars

(***************************************************************************)
(* Properties                                                              *)
(***************************************************************************)
\* handler h takes the step
Moved(h) == handlers'[h] # handlers[h]

\* every entry of the store other than u's is left as it was
OthersUntouched(u) ==
    \A x \in Users \ {u} :
        /\ Has(user_sessions', x) <=> Has(user_sessions, x)
        /\ Has(user_sessions, x) => user_sessions'[x] = user_sessions[x]

\* C1: no two dispatch requests are built from the same session (a session
\* is identified by the message id of its upload).
C1_OneDispatchPerSession ==
    \A i, j \in 1..Len(dispatches) :
        i # j => dispatches[i].message_id # dispatches[j].message_id

\* C2: at the step that sends a dispatch request, the session the request
\* was built from is in user_sessions.
C2_DispatchFromStoredSession ==
    [][ Len(dispatches') > Len(dispatches) =>
            \E u \in DOMAIN user_sessions :
                IntToText(user_sessions[u].message_id) = dispatches'[Len(dispatches')].message_id
      ]_vars

\* the dispatch call of this handler run has returned
AfterDispatch(hr) ==
    \/ hr.pc \in {"success_edit", "dispatchfail_edit"}
    \/ hr.pc = "error_edit" /\ hr.failed_at \in {"success_edit", "dispatchfail_edit"}

\* C3: once the dispatch call has returned (accepted or rejected) the
\* handler cannot finish without its user's session being absent from the
\* store at that step, whether the outcome edit returned or raised.
C3_SessionRemovedAfterDispatch ==
    [][ \A h \in EventIds :
            /\ handlers[h].pc = "dispatch" /\ Moved(h) => AfterDispatch(handlers'[h])
            /\ AfterDispatch(handlers[h]) /\ Moved(h) =>
                  \/ handlers'[h].pc = "done" /\ ~Has(user_sessions', handlers[h].user)
                                              /\ OthersUntouched(handlers[h].user)
                  \/ handlers'[h].pc = "error_edit" /\ AfterDispatch(handlers'[h])
                                                    /\ user_sessions' = user_sessions
      ]_vars

\* C3 witness: the provider accepted the job, the success edit raised, and
\* the session is still stored when the handler is about to finish.
C3_Witness ==
    \E h \in EventIds :
        /\ handlers[h].pc = "error_edit" /\ handlers[h].failed_at = "success_edit"
        /\ Has(user_sessions, handlers[h].user)
        /\ Len(dispatches) = 1

\* the resolver returned a failure: None or one of the three tags
IsResolverFailure(v) ==
    v.none \/ v.text \in {<<"FILE_TOO_BIG">>, <<"INVALID_FILE_ID">>, <<"WRONG_FILE_ID">>}

\* the handler run is reporting a resolver failure
AfterResolverFailure(hr) ==
    \/ hr.pc \in {"urlfail_edit", "toobig_edit", "fileid_edit"}
    \/ hr.pc = "error_edit" /\ hr.failed_at \in {"urlfail_edit", "toobig_edit", "fileid_edit"}

\* C4: when the resolver returns a failure the handler goes on to report it,
\* sends no dispatch request in the rest of its run, and finishes with its
\* user's session absent from the store.
C4_ResolverFailureRemovesAndNeverDispatches ==
    [][ \A h \in EventIds :
            /\ handlers[h].pc \in {"geturl_edit", "resolver"} /\ Moved(h)
                 /\ handlers'[h].pc # "error_edit" /\ handlers'[h].pc # "resolver"
                 /\ IsResolverFailure(handlers'[h].video_url)
                 => AfterResolverFailure(handlers'[h]) /\ dispatches' = dispatches
            /\ AfterResolverFailure(handlers[h]) /\ Moved(h) =>
                 /\ dispatches' = dispatches
                 /\ \/ handlers'[h].pc = "done" /\ ~Has(user_sessions', handlers[h].user)
                                                /\ OthersUntouched(handlers[h].user)
                    \/ handlers'[h].pc = "error_edit" /\ AfterResolverFailure(handlers'[h])
                                                      /\ user_sessions' = user_sessions
      ]_vars

\* C4 witness: the platform answered 'file is too big', the handler is
\* reporting it, its session is still stored and nothing was dispatched.
C4_Witness ==
    \E h \in EventIds :
        /\ handlers[h].pc = "toobig_edit"
        /\ handlers[h].video_url = PyStr(<<"FILE_TOO_BIG">>)
        /\ Has(user_sessions, handlers[h].user)
        /\ dispatches = <<>>

\* the handler run found no session for its user
NoSessionRun(hr) ==
    \/ hr.pc = "nosession_edit"
    \/ hr.pc = "error_edit" /\ hr.failed_at = "nosession_edit"

\* C5: a speed selection that found no session sends no resolver and no
\* dispatch request and none of its steps changes user_sessions.
C5_NoSessionLeavesStoreUnchanged ==
    [][ \A h \in EventIds :
            NoSessionRun(handlers[h]) /\ Moved(h) =>
                /\ user_sessions' = user_sessions
                /\ resolver_requests' = resolver_requests
                /\ dispatches' = dispatches
      ]_vars

\* the handler run found the provider not configured
NotConfiguredRun(hr) ==
    \/ hr.pc = "notconf_edit"
    \/ hr.pc = "error_edit" /\ hr.failed_at = "notconf_edit"

\* C6: a speed selection that found the provider not configured sends no
\* request and none of its steps changes user_sessions, so the session it
\* found is still stored when it finishes.
C6_NotConfiguredKeepsSession ==
    [][ \A h \in EventIds :
            NotConfiguredRun(handlers[h]) /\ Moved(h) =>
                /\ user_sessions' = user_sessions
                /\ resolver_requests' = resolver_requests
                /\ dispatches' = dispatches
      ]_vars

\* the handler run of a cancel event
CancelRun(hr) == hr.data = CANCEL /\ hr.pc \in {"get_message", "cancel_edit", "error_edit"}

\* C7: a cancel handler changes user_sessions only at its last step, and
\* that step removes exactly its user's entry if there is one (nothing
\* changes if there is none), whether the cancellation notice returned or
\* raised.
C7_CancelRemovesExactlyOwnSession ==
    [][ \A h \in EventIds :
            CancelRun(handlers[h]) /\ Moved(h) =>
                IF handlers'[h].pc = "done"
                THEN /\ DOMAIN user_sessions' = (DOMAIN user_sessions) \ {handlers[h].user}
                     /\ OthersUntouched(handlers[h].user)
                ELSE /\ handlers'[h].pc \in {"cancel_edit", "error_edit"}
                     /\ user_sessions' = user_sessions
      ]_vars

\* C7 witness: the cancellation notice raised while the user has a session
\* and another user has one too.
C7_Witness ==
    \E h \in EventIds :
        /\ handlers[h].data = CANCEL
        /\ handlers[h].pc = "error_edit" /\ handlers[h].failed_at = "cancel_edit"
        /\ Has(user_sessions, handlers[h].user)
        /\ \E x \in Users \ {handlers[h].user} : Has(user_sessions, x)

\* C8: the step that accepts an upload leaves exactly one entry for the
\* user, every field of which is taken from that upload event, whatever was
\* stored for the user before; other users' entries are untouched.
C8_AcceptedUploadStoresItsOwnSession ==
    [][ \A h \in EventIds :
            handlers[h].pc = "idle" /\ handlers'[h].pc = "menu_reply" =>
                LET u == handlers'[h].user
                    media == handlers'[h].media[1]
                    s == user_sessions'[u]
                IN  /\ DOMAIN user_sessions' = (DOMAIN user_sessions) \cup {u}
                    /\ OthersUntouched(u)
                    /\ DOMAIN s = {"file_id", "file_name", "file_size_mb", "chat_id",
                                   "message_id", "file_type"}
                    /\ s.file_id = media.id
                    /\ media.has_name => s.file_name = media.file_name
                    /\ s.file_size_mb.whole = media.size.mib
                    /\ s.file_size_mb.num = media.size.rem
                    /\ s.file_size_mb.den = 1024 * 1024
                    /\ s.chat_id = ChatId(u)
                    /\ s.message_id = handlers'[h].message_id
      ]_vars

\* C8 witness: two uploads of one user are both waiting for their menu
\* reply; the store holds the session of the second, of another media.
C8_Witness ==
    \E h1, h2 \in EventIds :
        /\ h1 < h2
        /\ handlers[h1].pc = "menu_reply" /\ handlers[h2].pc = "menu_reply"
        /\ handlers[h1].user = handlers[h2].user
        /\ handlers[h1].media # handlers[h2].media
        /\ Has(user_sessions, handlers[h2].user)
        /\ user_sessions[handlers[h2].user].message_id = handlers[h2].message_id
        /\ user_sessions[handlers[h2].user].file_id = handlers[h2].media[1].id

\* a byte count strictly above 2 GiB, and one of exactly 2 GiB
OverCap(size) == size.mib > 2048 \/ (size.mib = 2048 /\ size.rem > 0)

AtCap(size) == size.mib = 2048 /\ size.rem = 0

\* the handler run of a refused upload
RefusedRun(hr) ==
    \/ hr.pc = "toolarge_reply"
    \/ hr.pc = "error_reply" /\ hr.failed_at = "toolarge_reply"

\* C9: an upload above the cap goes to the 'File too large' reply and no
\* step of its handler changes user_sessions; an upload of exactly the cap
\* is accepted and stored.
C9_OversizeRejectedCapAccepted ==
    [][ \A h \in EventIds :
            /\ handlers[h].pc = "idle" /\ Moved(h) /\ handlers'[h].media # <<>> =>
                 LET size == handlers'[h].media[1].size
                     u == handlers'[h].user
                 IN  /\ OverCap(size) => /\ handlers'[h].pc = "toolarge_reply"
                                         /\ user_sessions' = user_sessions
                     /\ AtCap(size) => /\ handlers'[h].pc = "menu_reply"
                                       /\ Has(user_sessions', u)
                                       /\ user_sessions'[u].message_id = handlers'[h].message_id
            /\ RefusedRun(handlers[h]) /\ Moved(h) =>
                 /\ user_sessions' = user_sessions
                 /\ handlers'[h].pc \in {"error_reply", "done", "raised"}
      ]_vars

\* C9 witness: an upload of exactly 2 GiB is stored for the user, and a
\* later upload of 2 GiB + 1 byte by that user has been refused.
C9_Witness ==
    \E h \in EventIds :
        /\ handlers[h].pc = "toolarge_reply"
        /\ OverCap(handlers[h].media[1].size)
        /\ Has(user_sessions, handlers[h].user)
        /\ user_sessions[handlers[h].user].file_size_mb = FileSizeMb(MAX_FILE_SIZE)
        /\ user_sessions[handlers[h].user].message_id # handlers[h].message_id

\* C10: a reply or edit that raises never changes what the handler goes on
\* to do: no exception leaves a handler, and no handler is in its except
\* clause because one of the edits raised whose return is followed by more
\* than the cleanup (the two progress edits and the 'not configured' edit).
C10_RepliesAreBestEffort ==
    \A h \in EventIds :
        /\ handlers[h].pc # "raised"
        /\ handlers[h].pc = "error_edit" =>
              handlers[h].failed_at \notin {"geturl_edit", "trigger_edit", "notconf_edit"}

(***************************************************************************)
(* C11  Under the assumption that every reply, edit, resolver and dispatch *)
(* call returns in the end, every run of callback_handler (a speed         *)
(* selection or a cancellation) that has started finishes.                 *)
(***************************************************************************)
C11_CallbackHandlerFinishes ==
    \A h \in LiveEventIds : (handlers[h].pc = "get_message") ~> (handlers[h].pc = "done")

\* a speed selection that got as far as the dispatch call, still to finish
C11_Witness ==
    \E h \in LiveEventIds : handlers[h].pc = "dispatch" /\ handlers[h].data = SPEED_1_5

(***************************************************************************)
(* The filter construction: what the claims speak of                       *)
(***************************************************************************)
TempoDone == tempo.pc = "done"

Abs(i) == IF i < 0 THEN 0 - i ELSE i

\* a stage value within [0.5, 2.0]
StageInRange(v) == ~LT(v, 1, 2) /\ ~GT(v, 2, 1)

RECURSIVE ProductN(_)
ProductN(stages) ==
    IF stages = <<>> THEN 1 ELSE stages[1].n * ProductN(Tail(stages))

RECURSIVE ProductD(_)
ProductD(stages) ==
    IF stages = <<>> THEN 1 ELSE stages[1].d * ProductD(Tail(stages))

\* |product of the stages - speed| <= speed / 100, for speed > 0.  (The
\* two sides never meet for a last stage printed in hundredths, so eps,
\* smaller than any difference here, has no say.)
WithinOnePercent(stages, speed) ==
    100 * Abs(ProductN(stages) * speed.d - speed.n * ProductD(stages))
        <= speed.n * ProductD(stages)

\* the two rationals are the same number
SameNumber(a, b) == a.n * b.d = b.n * a.d

\* the last stage is not the remainder itself: printing it rounded it
LastStageRounded ==
    LET last == tempo.audio_filter[Len(tempo.audio_filter)]
    IN  ~SameNumber(last, tempo.remaining)

(***************************************************************************)
(* C12  For a speed in (0, 0.5) the chain built has every stage within     *)
(* [0.5, 2.0], and the product of its stages, the last one as printed with *)
(* two decimals, is within 1% of the speed.                                *)
(***************************************************************************)
C12_SlowChainInRangeAndWithinTolerance ==
    (TempoDone /\ GT(tempo.SPEED, 0, 1) /\ LT(tempo.SPEED, 1, 2)) =>
        /\ \A i \in 1..Len(tempo.audio_filter) : StageInRange(tempo.audio_filter[i])
        /\ WithinOnePercent(tempo.audio_filter, tempo.SPEED)

\* a chain of at least three stages for a slow speed, its last one rounded
C12_Witness ==
    /\ TempoDone
    /\ LT(tempo.SPEED, 1, 2)
    /\ Len(tempo.audio_filter) >= 3
    /\ LastStageRounded

(***************************************************************************)
(* C13  For a speed above 2.0 every stage but the last is exactly 2.0, the *)
(* last stage lies in (0.5, 2.0], and the product of the stages is within  *)
(* 1% of the speed.                                                        *)
(***************************************************************************)
C13_FastChainShapeAndTolerance ==
    (TempoDone /\ GT(tempo.SPEED, 2, 1)) =>
        LET stages == tempo.audio_filter
            last == stages[Len(stages)]
        IN  /\ Len(stages) >= 2
            /\ \A i \in 1..(Len(stages) - 1) : stages[i] = TWO
            /\ GT(last, 1, 2) /\ ~GT(last, 2, 1)
            /\ WithinOnePercent(stages, tempo.SPEED)

\* a chain of at least three stages for a fast speed, its last one rounded
C13_Witness ==
    /\ TempoDone
    /\ GT(tempo.SPEED, 2, 1)
    /\ Len(tempo.audio_filter) >= 3
    /\ LastStageRounded

(***************************************************************************)
(* C14  For a speed in [0.5, 2.0], both ends included, the chain is one    *)
(* stage that is the speed itself, unrounded, and the video-side factor is *)
(* 1/speed.                                                                *)
(*   As stated (the factor is 1/speed itself) it fails: the factor is      *)
(* printed with five decimals.  What holds: the factor is the multiple of  *)
(* 0.00001 nearest to 1/speed.                                             *)
(***************************************************************************)
SpeedInBand == ~LT(tempo.SPEED, 1, 2) /\ ~GT(tempo.SPEED, 2, 1)

OneUnroundedStage ==
    /\ Len(tempo.audio_filter) = 1
    /\ SameNumber(tempo.audio_filter[1], tempo.SPEED)
    /\ tempo.audio_filter[1].eps = tempo.SPEED.eps

C14_OneStageAndExactInverse ==
    (TempoDone /\ SpeedInBand) =>
        /\ OneUnroundedStage
        /\ tempo.video_filter[1].n * tempo.SPEED.n = tempo.video_filter[1].d * tempo.SPEED.d

C14_OneStageAndInverseToFiveDecimals ==
    (TempoDone /\ SpeedInBand) =>
        /\ OneUnroundedStage
        /\ tempo.video_filter[1].d = 100000
        /\ 2 * Abs(tempo.video_filter[1].n * tempo.SPEED.n - 100000 * tempo.SPEED.d)
              <= tempo.SPEED.n

\* speed 1.5: one stage 1.5, and the factor printed is 0.66667
C14_Witness ==
    /\ TempoDone
    /\ tempo.SPEED = Float(96, SpeedDen, 0)
    /\ Len(tempo.audio_filter) = 1
    /\ tempo.video_filter = <<Float(66667, 100000, 0)>>

(***************************************************************************)
(* C15  A speed of 0 or below is refused with InvalidSpeed: the            *)
(* construction ends with an error outcome and has emitted no stage.       *)
(***************************************************************************)
C15_NonPositiveSpeedIsRefused ==
    (~GT(tempo.SPEED, 0, 1) /\ tempo.pc # "start") =>
        /\ tempo.pc = "invalid_speed"
        /\ tempo.atempo_filters = <<>>
        /\ tempo.audio_filter = <<>>

(***************************************************************************)
(* C16  The chain is the minimal one.  For a speed above 2.0: k stages of  *)
(* 2.0, then the remainder speed/2^k, k the smallest with speed/2^k <= 2.0.*)
(* For a speed below 0.5: k stages of 0.5, then speed*2^k, k the smallest  *)
(* with speed*2^k >= 0.5.  So 5.0 gives [2.0, 2.0, 1.25] and 0.2 gives     *)
(* [0.5, 0.5, 0.8].                                                        *)
(*   As stated (the last stage is the remainder itself) it fails: the last *)
(* stage is the remainder printed with two decimals.  What holds: the last *)
(* stage is the multiple of 0.01 nearest to the remainder.                 *)
(***************************************************************************)
\* k stages of 2.0 and one more, k the smallest with speed / 2^k <= 2.0
FastChainOfMinimalLength(stages, k) ==
    /\ k >= 1
    /\ \A i \in 1..k : stages[i] = TWO
    /\ ~GT(tempo.SPEED, 2 * 2^k, 1)
    /\ GT(tempo.SPEED, 2^k, 1)

\* k stages of 0.5 and one more, k the smallest with speed * 2^k >= 0.5
SlowChainOfMinimalLength(stages, k) ==
    /\ k >= 1
    /\ \A i \in 1..k : stages[i] = HALF
    /\ ~LT(tempo.SPEED, 1, 2 * 2^k)
    /\ LT(tempo.SPEED, 1, 2^k)

ChainExamples ==
    /\ tempo.SPEED = Float(320, SpeedDen, 0) =>
            /\ Len(tempo.audio_filter) = 3
            /\ tempo.audio_filter[1] = TWO /\ tempo.audio_filter[2] = TWO
            /\ SameNumber(tempo.audio_filter[3], Float(5, 4, 0))
    /\ tempo.SPEED = Float(1, 5, 1) =>
            /\ Len(tempo.audio_filter) = 3
            /\ tempo.audio_filter[1] = HALF /\ tempo.audio_filter[2] = HALF
            /\ SameNumber(tempo.audio_filter[3], Float(4, 5, 0))

C16_MinimalChainExactRemainder ==
    TempoDone =>
        LET stages == tempo.audio_filter
            k == Len(stages) - 1
            last == stages[Len(stages)]
        IN  /\ GT(tempo.SPEED, 2, 1) =>
                  /\ FastChainOfMinimalLength(stages, k)
                  /\ last.n * tempo.SPEED.d * 2^k = tempo.SPEED.n * last.d
            /\ (GT(tempo.SPEED, 0, 1) /\ LT(tempo.SPEED, 1, 2)) =>
                  /\ SlowChainOfMinimalLength(stages, k)
                  /\ last.n * tempo.SPEED.d = tempo.SPEED.n * 2^k * last.d
            /\ ChainExamples

C16_MinimalChainRoundedRemainder ==
    TempoDone =>
        LET stages == tempo.audio_filter
            k == Len(stages) - 1
            last == stages[Len(stages)]
        IN  /\ GT(tempo.SPEED, 2, 1) =>
                  /\ FastChainOfMinimalLength(stages, k)
                  /\ last.d = 100
                  /\ 2 * Abs(last.n * tempo.SPEED.d * 2^k - 100 * tempo.SPEED.n)
                        <= tempo.SPEED.d * 2^k
            /\ (GT(tempo.SPEED, 0, 1) /\ LT(tempo.SPEED, 1, 2)) =>
                  /\ SlowChainOfMinimalLength(stages, k)
                  /\ last.d = 100
                  /\ 2 * Abs(last.n * tempo.SPEED.d - 100 * tempo.SPEED.n * 2^k)
                        <= tempo.SPEED.d
            /\ ChainExamples

\* speed 129/64 = 2.015625: one stage of 2.0, then 1.01 for 1.0078125
C16_Witness ==
    /\ TempoDone
    /\ tempo.SPEED = Float(129, SpeedDen, 0)
    /\ tempo.audio_filter = <<TWO, Float(101, 100, 0)>>

(***************************************************************************)
(* The single calls: what the claims speak of                              *)
(***************************************************************************)
Returned(fn) == probe.fn = fn /\ probe.pc = "returned"

UpperLetters == <<"A", "B", "C", "D", "E", "F", "G", "H", "I", "J", "K", "L", "M", "N", "O", "P", "Q", "R", "S", "T", "U", "V", "W", "X", "Y", "Z">>

LowerLetters == <<"a", "b", "c", "d", "e", "f", "g", "h", "i", "j", "k", "l", "m", "n", "o", "p", "q", "r", "s", "t", "u", "v", "w", "x", "y", "z">>

LowerChar(c) ==
    IF \E i \in 1..26 : UpperLetters[i] = c
    THEN LowerLetters[CHOOSE i \in 1..26 : UpperLetters[i] = c]
    ELSE c

\* str.lower()
Lower(t) == [i \in 1..Len(t) |-> LowerChar(t[i])]

\* the needle occurs in the text, whatever the letter case of the text
ContainsAnyCase(t, needle) == Contains(Lower(t), needle)

\* the platform answered, and its answer says ok = false
NonSuccess(r) == r.transport_ok /\ r.json_ok /\ ~r.ok

(***************************************************************************)
(* C17  For a non-success platform response the resolver classifies the    *)
(* error text by substring, in any letter case: 'file is too big' gives    *)
(* FileTooBig, 'invalid file id' InvalidHandle, 'wrong file id'            *)
(* MalformedHandle, any other description UnknownPlatformError (no value). *)
(***************************************************************************)
C17_ClassifiesInAnyLetterCase ==
    (Returned("get_direct_video_url") /\ probe.answer # <<>> /\ NonSuccess(probe.answer[1])) =>
        LET r == probe.answer[1]
            description == IF r.has_desc THEN r.description ELSE UNKNOWN_TEXT
            result == probe.result[1]
        IN  IF ContainsAnyCase(description, TOO_BIG_TEXT) THEN result = PyStr(<<"FILE_TOO_BIG">>)
            ELSE IF ContainsAnyCase(description, INVALID_TEXT) THEN result = PyStr(<<"INVALID_FILE_ID">>)
            ELSE IF ContainsAnyCase(description, WRONG_TEXT) THEN result = PyStr(<<"WRONG_FILE_ID">>)
            ELSE result = PyNone

(***************************************************************************)
(* C18  The resolver never raises: whatever the platform does (no answer,  *)
(* a body that is not JSON, a refusal, a success without a path), the call *)
(* returns a URL or a failure outcome, and a URL only when the platform    *)
(* answered ok = true with a file path.                                    *)
(***************************************************************************)
FailureTags == {PyStr(<<"FILE_TOO_BIG">>), PyStr(<<"INVALID_FILE_ID">>), PyStr(<<"WRONG_FILE_ID">>)}

IsUrl(v) == ~v.none /\ Len(v.text) = 2 /\ v.text[1] = "https://api.telegram.org/file/bot"

C18_ResolverAlwaysReturns ==
    probe.fn = "get_direct_video_url" =>
        /\ probe.pc \in {"call", "request", "returned"}
        /\ probe.pc = "returned" =>
              LET result == probe.result[1]
              IN  /\ result = PyNone \/ result \in FailureTags \/ IsUrl(result)
                  /\ IsUrl(result) =>
                        /\ probe.answer # <<>>
                        /\ probe.answer[1].transport_ok /\ probe.answer[1].json_ok
                        /\ probe.answer[1].ok /\ probe.answer[1].has_path
                        /\ result.text[2] = probe.answer[1].file_path

\* a success answer that carries no file path: the call returns no value
C18_Witness ==
    /\ Returned("get_direct_video_url")
    /\ probe.answer # <<>>
    /\ probe.answer[1].ok /\ ~probe.answer[1].has_path
    /\ probe.result = <<PyNone>>

(***************************************************************************)
(* C19  A dispatch call reports success exactly when the provider answered *)
(* with status 204; any other status and any transport exception is a      *)
(* failure; and one call sends at most one request.                        *)
(***************************************************************************)
C19_SuccessIffNoContentOneRequest ==
    probe.fn = "trigger_video_workflow" =>
        /\ Len(probe.requests) <= 1
        /\ probe.pc = "returned" =>
              (probe.result = <<TRUE>>) = (probe.answer = <<204>> /\ Len(probe.requests) = 1)

\* the provider answered 200: a success status that is not 204
C19_Witness ==
    /\ Returned("trigger_video_workflow")
    /\ probe.answer = <<200>>
    /\ probe.result = <<FALSE>>
    /\ Len(probe.requests) = 1

(***************************************************************************)
(* C20  Each failure class (oversize upload, not configured, FileTooBig,   *)
(* InvalidHandle, MalformedHandle, network or unknown resolver failure,    *)
(* dispatch failure) has a message of its own: no two classes share one.   *)
(*   As stated it fails: InvalidHandle and MalformedHandle are reported    *)
(* with the same message.  What holds: two classes share a message only if *)
(* they are these two.                                                     *)
(***************************************************************************)
HandleClasses == {"InvalidHandle", "MalformedHandle"}

C20_EveryClassHasItsOwnMessage ==
    Returned("failure_report") =>
        \A s \in FailureScenarios :
            s.class # probe.arg.class => ReplyText(FailurePc(s)) # probe.result[1]

C20_OnlyTheHandleClassesShareAMessage ==
    Returned("failure_report") =>
        \A s \in FailureScenarios :
            /\ (s.class # probe.arg.class /\ {s.class, probe.arg.class} # HandleClasses)
                  => ReplyText(FailurePc(s)) # probe.result[1]
            /\ {s.class, probe.arg.class} \subseteq HandleClasses
                  => ReplyText(FailurePc(s)) = probe.result[1]

\* the report of a handle the platform calls wrong
C20_Witness ==
    /\ Returned("failure_report")
    /\ probe.arg.class = "MalformedHandle"
    /\ probe.result = <<"File ID error!">>

(***************************************************************************)
(* C21  With a mandatory configuration value (API_ID, API_HASH,            *)
(* SESSION_STRING, BOT_TOKEN) missing the process halts at startup before  *)
(* any chat event is handled.  With only provider values (GH_TOKEN,        *)
(* GH_REPO) missing startup proceeds, and every speed selection ends in    *)
(* the not-configured failure without a dispatch request being sent.       *)
(*   As stated it fails: a speed selection made without a stored session   *)
(* ends in the no-session failure.  What holds: a speed selection ends in  *)
(* the not-configured failure when the user has a stored session and in    *)
(* the no-session failure otherwise, and no resolver or dispatch request   *)
(* is sent.                                                                *)
(***************************************************************************)
MandatoryMissing == MISSING_VARS(startup.env) # {}

ProviderMissing == ~(ProviderVars \subseteq startup.env)

\* handler h serves a speed selection and is past its first await, not in
\* the except clause
SelectionUnderWay(h) ==
    /\ handlers[h].data = SPEED_1_5
    /\ handlers[h].pc \notin {"get_message", "error_edit"}

HaltsOrProceeds ==
    /\ MandatoryMissing => (startup.pc # "running" /\ \A h \in EventIds : handlers[h] = Idle)
    /\ ~MandatoryMissing => startup.pc # "exited"

C22_NoFileLeftWhenFinished ==
    job.pc = "returned" => job.files = {}

(***************************************************************************)
(* C23  For every speed above 0 the construction ends after finitely many  *)
(* stages: the loop of the speed > 2.0 branch makes no further round once  *)
(* the remaining value is <= 2.0, the loop of the speed < 0.5 branch none  *)
(* once it is >= 0.5.                                                      *)
(***************************************************************************)
\* a round of a loop is made: one more stage of 2.0 or 0.5
LoopRound == Len(tempo'.atempo_filters) > Len(tempo.atempo_filters)

C23_PositiveSpeedTerminates ==
    /\ (tempo.pc = "start" /\ GT(tempo.SPEED, 0, 1)) ~> TempoDone
    /\ [][(LoopRound /\ tempo.pc = "while_fast") => GT(tempo.remaining, 2, 1)]_vars
    /\ [][(LoopRound /\ tempo.pc = "while_slow") => LT(tempo.remaining, 1, 2)]_vars

\* a chain of at least six stages has been built for a speed above 0
C23_Witness ==
    /\ TempoDone
    /\ GT(tempo.SPEED, 0, 1)
    /\ Len(tempo.audio_filter) >= 6

(***************************************************************************)
(* C24  A secondary failure never masks the primary outcome: when the edit *)
(* that reports the outcome of a speed selection (dispatch accepted,       *)
(* resolver failure, dispatch failure) fails, the handler does not go on   *)
(* to show a message about that failure; after an accepted dispatch the    *)
(* user is never shown 'Unexpected error'.                                 *)
(***************************************************************************)
OutcomeEdits ==
    {"success_edit", "dispatchfail_edit", "urlfail_edit", "toobig_edit", "fileid_edit"}

C24_OutcomeEditFailureIsNotReported ==
    \A h \in EventIds :
        handlers[h].pc = "error_edit" => handlers[h].failed_at \notin OutcomeEdits

(***************************************************************************)
(* C25  The removal at the end of a speed selection (normal cleanup or     *)
(* cleanup in the except clause) removes only the session the handler      *)
(* read: a session the same user stored by a new upload while the handler  *)
(* was suspended is still in the store when the handler has finished.      *)
(***************************************************************************)
C25_CleanupRemovesOnlyTheSessionRead ==
    [][ \A h \in EventIds :
          LET u == handlers[h].user
          IN  (/\ Moved(h)
               /\ handlers[h].session # <<>>
               /\ Has(user_sessions, u)
               /\ user_sessions[u] # handlers[h].session[1])
              => (Has(user_sessions', u) /\ user_sessions'[u] = user_sessions[u])
      ]_vars

(***************************************************************************)
(* C26  All fields of a dispatch request come from one session snapshot:   *)
(* the URL sent was resolved from the file handle of the session whose     *)
(* chat id and message id are sent, also when another upload of the user   *)
(* has replaced the stored session since the handler read it.              *)
(***************************************************************************)
C26_DispatchFromOneSnapshot ==
    [][ \A h \in EventIds :
          (Moved(h) /\ Len(dispatches') > Len(dispatches)) =>
              LET d == dispatches'[Len(dispatches')]
                  session == handlers[h].session[1]
              IN  /\ d.video_url =
                        <<"https://api.telegram.org/file/bot", <<"videos", session.file_id.v>>>>
                  /\ d.chat_id = IntToText(session.chat_id)
                  /\ d.message_id = IntToText(session.message_id)
      ]_vars

\* about to send the dispatch, the stored session no longer the one read
C26_Witness ==
    \E h \in EventIds :
        /\ handlers[h].pc = "trigger_edit"
        /\ Has(user_sessions, handlers[h].user)
        /\ user_sessions[handlers[h].user] # handlers[h].session[1]

(***************************************************************************)
(* C29  The Dispatched outcome can be reached for a session stored by      *)
(* video_handler: get_direct_video_url, called with the handle of the      *)
(* session (media.id, a number), sends the lookup request and does not     *)
(* fail before any request is made.                                        *)
(***************************************************************************)
C29_NumericHandleIsLookedUp ==
    \A h \in EventIds :
        (/\ handlers[h].session # <<>>
         /\ handlers[h].session[1].file_id.type = "int"
         /\ handlers[h].pc \in {"resolver", "urlfail_edit", "toobig_edit", "fileid_edit",
                                 "trigger_edit"})
        => \E i \in 1..Len(resolver_requests) :
                resolver_requests[i] = handlers[h].session[1].file_id

(***************************************************************************)
(* C27  A callback whose payload is neither the cancel tag nor a parsable  *)
(* speed value (an unknown tag, an empty payload, speed_ followed by text  *)
(* that is not a number) leaves the session map unchanged and sends no     *)
(* resolver request and no dispatch.                                       *)
(***************************************************************************)
ParsableSpeed(data) ==
    StartsWith(data, SPEED_PREFIX) /\ ParseFloat(Split(data, "_")[2]).ok

\* handler h is a callback_handler under way whose payload is neither
NeitherCancelNorSpeed(h) ==
    /\ handlers[h].pc \notin {"idle", "done", "raised"}
    /\ handlers[h].media = <<>>
    /\ handlers[h].data # CANCEL
    /\ ~ParsableSpeed(handlers[h].data)

C27_UnparsablePayloadChangesNothing ==
    [][ \A h \in EventIds :
          (NeitherCancelNorSpeed(h) /\ Moved(h)) =>
              /\ user_sessions' = user_sessions
              /\ resolver_requests' = resolver_requests
              /\ dispatches' = dispatches
      ]_vars

(***************************************************************************)
(* C28  Every dispatch request carries a strictly positive speed: for a    *)
(* payload speed_<x>, also with x outside the menu (zero, a negative       *)
(* number), no dispatch is sent unless x > 0.                              *)
(***************************************************************************)
C28_DispatchedSpeedIsPositive ==
    \A i \in 1..Len(dispatches) : ParseFloat(dispatches[i].speed).val > 0

====
